---- MODULE Spec2Model ----
(***************************************************************************)
(* Model of labkit.ts: the install/start orchestrator of an OpenLab app.   *)
(*                                                                         *)
(* Strings are sequences of chunks (<<"a", ".sh">> is "a.sh"), so that     *)
(* concatenation is \o and endsWith looks at the last chunk.  Paths are    *)
(* sequences of segments whose first segment is "/" when absolute.         *)
(* JavaScript values are records [t |-> type tag, v |-> chunks].           *)
(***************************************************************************)
EXTENDS FiniteSets, Integers, Sequences, TLC

\* ------------------------------------------------------------------ bounds
MaxSetup == 2
MaxPorts == 2
MaxOptions == 2

\* ------------------------------------------------------- JavaScript values
Undefined == [t |-> "undefined", v |-> <<>>]
Null == [t |-> "null", v |-> <<>>]
Str(s) == [t |-> "string", v |-> s]
Num(digits) == [t |-> "number", v |-> <<digits>>]
Arr == [t |-> "array", v |-> <<"x">>]

\* !x of JavaScript, negated: the values that pass an `if (x)` test
Truthy(x) ==
  CASE x.t = "undefined" -> FALSE
    [] x.t = "null" -> FALSE
    [] x.t = "string" -> x.v # <<>>
    [] x.t = "number" -> x.v # <<"0">>
    [] OTHER -> TRUE

\* String.prototype.endsWith on chunked strings
endsWith(s, suffix) == Len(s) > 0 /\ s[Len(s)] = suffix

\* ------------------------------------------------------------------- paths
IsAbs(p) == Len(p) > 0 /\ p[1] = "/"

\* the directory a relative path names when the shell or the kernel
\* resolves it in working directory wd
Resolve(wd, p) ==
  LET raw == IF IsAbs(p) THEN p ELSE wd \o p
  IN SelectSeq(raw, LAMBDA s : s # ".")

IsPrefix(p, q) == Len(p) <= Len(q) /\ SubSeq(q, 1, Len(p)) = p

\* ------------------------------------------------------------ configuration
requiredProps == <<"appId", "source", "scripts", "appRepository", "appVersion", "appDirectory">>

Required == {requiredProps[k] : k \in 1..Len(requiredProps)}

\* `prop in config` on the parsed YAML document
HasProp(cfg, prop) == prop \in cfg.keys

\* index of the first required property the validation loop finds missing
\* (0 when none is missing)
RECURSIVE FirstMissingFrom(_, _)
FirstMissingFrom(cfg, k) ==
  IF k > Len(requiredProps) THEN 0
  ELSE IF ~HasProp(cfg, requiredProps[k]) THEN k
  ELSE FirstMissingFrom(cfg, k + 1)

\* mutant: the scan reports the last missing property
FirstMissing_Last(cfg) ==
  IF \A k \in 1..Len(requiredProps) : HasProp(cfg, requiredProps[k]) THEN 0
  ELSE CHOOSE k \in 1..Len(requiredProps) :
         /\ ~HasProp(cfg, requiredProps[k])
         /\ \A j \in (k + 1)..Len(requiredProps) : HasProp(cfg, requiredProps[j])

FirstMissing(cfg) == FirstMissingFrom(cfg, 1)

\* ------------------------------------------------------------------ errors
NoError == [name |-> "none", msg |-> <<>>]
Err(name, msg) == [name |-> name, msg |-> msg]

\* config.scripts.setup as a JavaScript value (an array is always truthy)
setupValue(scripts) == [t |-> scripts.setupT, v |-> scripts.setupS]

\* !config.scripts.setup || !Array.isArray(config.scripts.setup) || !config.scripts.start
ScriptsInvalid(scripts) ==
  \/ ~Truthy(setupValue(scripts))
  \/ scripts.setupT # "array"
  \/ ~Truthy(scripts.start)

\* readConfig: the error it throws, or NoError when it returns the document
readConfig(state, content) ==
  IF state = "absent" THEN Err("Error", <<"Config file not found">>)
  ELSE IF state = "malformed" THEN Err("Error", <<"Invalid JSON format in config file">>)
  ELSE IF content.top = "null"
    THEN Err("TypeError", <<"Cannot use 'in' operator to search for ", requiredProps[1]>>)
  ELSE IF FirstMissing(content) # 0
    THEN Err("Error", <<"Missing required property in config: ", requiredProps[FirstMissing(content)]>>)
  ELSE IF content.scripts.t = "null"
    THEN Err("TypeError", <<"Cannot read properties of null">>)
  ELSE IF content.scripts.t # "map" \/ ScriptsInvalid(content.scripts)
    THEN Err("Error", <<"Invalid scripts configuration in config">>)
  ELSE NoError

\* ------------------------------------------------------ environment builder
FixedKeys == {"APP_REPO", "APP_VERSION", "APP_DIRECTORY"}

\* properties every object literal inherits from Object.prototype
ObjectPrototypeProps ==
  {"constructor", "toString", "toLocaleString", "valueOf", "hasOwnProperty",
   "isPrototypeOf", "propertyIsEnumerable", "__proto__"}

\* `key in envVars` where envVars is an object literal
In(key, envVars) == key \in DOMAIN envVars \/ key \in ObjectPrototypeProps

Digit(d) == <<"0", "1", "2", "3", "4", "5", "6", "7", "8", "9">>[d + 1]

\* Number.prototype.toString of a non-negative integer, as a chunk sequence
RECURSIVE toString(_)
toString(n) == IF n < 10 THEN <<Digit(n)>> ELSE toString(n \div 10) \o <<Digit(n % 10)>>

\* envVars[key] = value
Put(envVars, key, value) ==
  [n \in DOMAIN envVars \cup {key} |-> IF n = key THEN value ELSE envVars[n]]

\* mutant: { ...process.env, APP_REPO: ..., APP_VERSION: ..., APP_DIRECTORY: ... }
SeedEnv_ConfigWins(cfg, penv) ==
  [n \in FixedKeys \cup DOMAIN penv |->
     CASE n = "APP_REPO" -> cfg.appRepository
       [] n = "APP_VERSION" -> cfg.appVersion
       [] n = "APP_DIRECTORY" -> cfg.appDirectory
       [] OTHER -> penv[n]]

\* { APP_REPO: ..., APP_VERSION: ..., APP_DIRECTORY: ..., ...process.env }
SeedEnv(cfg, penv) ==
  LET fixed == [n \in FixedKeys |->
                  CASE n = "APP_REPO" -> cfg.appRepository
                    [] n = "APP_VERSION" -> cfg.appVersion
                    [] OTHER -> cfg.appDirectory]
  IN [n \in FixedKeys \cup DOMAIN penv |-> IF n \in DOMAIN penv THEN penv[n] ELSE fixed[n]]

\* mutant: the loop assigns without the `in` test
RECURSIVE AddPorts_Overwrite(_, _, _)
AddPorts_Overwrite(envVars, ports, k) ==
  IF k > Len(ports) THEN envVars
  ELSE AddPorts_Overwrite(Put(envVars, ports[k].envVar, toString(ports[k].port)), ports, k + 1)

RECURSIVE AddPorts(_, _, _)
AddPorts(envVars, ports, k) ==
  IF k > Len(ports) THEN envVars
  ELSE AddPorts(IF ~In(ports[k].envVar, envVars)
                  THEN Put(envVars, ports[k].envVar, toString(ports[k].port))
                  ELSE envVars,
                ports, k + 1)

RECURSIVE AddOptions(_, _, _)
AddOptions(envVars, options, k) ==
  IF k > Len(options) THEN envVars
  ELSE AddOptions(IF ~In(options[k].envVar, envVars)
                    THEN Put(envVars, options[k].envVar, options[k].default)
                    ELSE envVars,
                  options, k + 1)

setEnvVars(cfg, penv) ==
  AddOptions(AddPorts(SeedEnv(cfg, penv), cfg.ports, 1), cfg.additionalOptions, 1)

\* ------------------------------------------------------------ script runner
NoActivation == [kind |-> "", target |-> <<>>]

\* mutant: every kind but venv is taken for conda
getActivationCommand_Else(cfg) ==
  IF cfg.python = "venv"
    THEN [kind |-> "source", target |-> cfg.appDirectory \o <<"venv", "bin", "activate">>]
  ELSE [kind |-> "conda activate", target |-> cfg.appId]

getActivationCommand(cfg) ==
  IF cfg.python = "venv"
    THEN [kind |-> "source", target |-> cfg.appDirectory \o <<"venv", "bin", "activate">>]
  ELSE IF cfg.python = "conda"
    THEN [kind |-> "conda activate", target |-> cfg.appId]
  ELSE NoActivation

\* one child process as the operating system saw it
Spawn(op, a, dir, act, script, wd, status, idx) ==
  [op |-> op, a |-> a, dir |-> dir, act |-> act, script |-> script,
   cwd |-> wd, status |-> status, idx |-> idx]

\* mutant: the exit status of the child is not looked at
runScript_IgnoreStatus(script, cfg, baseDir, wd, idx, chmodOk, status) ==
  LET activationCommand ==
        IF cfg.autoActivateEnvBeforeEachStep THEN getActivationCommand(cfg) ELSE NoActivation
      child == Spawn("bash", <<>>, <<>>, activationCommand, script.v,
                     Resolve(wd, baseDir), status, idx)
      chmod == [path |-> Resolve(wd, baseDir) \o script.v, ok |-> chmodOk, idx |-> idx]
  IN IF script.t # "string"
       THEN [chmod |-> <<>>, spawn |-> <<>>,
             error |-> Err("TypeError", <<"script.endsWith is not a function">>)]
     ELSE IF endsWith(script.v, ".sh") /\ ~chmodOk
       THEN [chmod |-> <<chmod>>, spawn |-> <<>>,
             error |-> Err("Error", <<"chmod failed">>)]
     ELSE [chmod |-> IF endsWith(script.v, ".sh") THEN <<chmod>> ELSE <<>>,
           spawn |-> <<child>>,
           error |-> NoError]

\* runScript for one script value, given what chmod and the child process
\* will answer: the chmod calls made, the children spawned, the error thrown
runScript(script, cfg, baseDir, wd, idx, chmodOk, status) ==
  LET activationCommand ==
        IF cfg.autoActivateEnvBeforeEachStep THEN getActivationCommand(cfg) ELSE NoActivation
      child == Spawn("bash", <<>>, <<>>, activationCommand, script.v,
                     Resolve(wd, baseDir), status, idx)
      chmod == [path |-> Resolve(wd, baseDir) \o script.v, ok |-> chmodOk, idx |-> idx]
  IN IF script.t # "string"
       THEN [chmod |-> <<>>, spawn |-> <<>>,
             error |-> Err("TypeError", <<"script.endsWith is not a function">>)]
     ELSE IF endsWith(script.v, ".sh") /\ ~chmodOk
       THEN [chmod |-> <<chmod>>, spawn |-> <<>>,
             error |-> Err("Error", <<"chmod failed">>)]
     ELSE [chmod |-> IF endsWith(script.v, ".sh") THEN <<chmod>> ELSE <<>>,
           spawn |-> <<child>>,
           error |-> IF status = 0 THEN NoError ELSE Err("Error", <<"Command failed">>)]

\* ------------------------------------------------------------------ inputs
SeqsUpTo(S, n) == UNION {[1..k -> S] : k \in 0..n}

SetupItems == {Str(<<"a", ".sh">>), Str(<<"make">>), Num("7")}

StartValues ==
  {Undefined, Str(<<>>), Str(<<"start", ".sh">>), Str(<<"serve", ".sh", " --dev">>),
   Num("42"), Num("0"), Arr}

ScriptsMap(setupT, setupS, items, start) ==
  [t |-> "map", setupT |-> setupT, setupS |-> setupS, setupItems |-> items, start |-> start]

ScriptsValues ==
  {ScriptsMap("array", <<>>, items, start) :
     items \in SeqsUpTo(SetupItems, MaxSetup), start \in StartValues}
  \cup {ScriptsMap(t, <<>>, <<>>, start) : t \in {"undefined", "null"}, start \in StartValues}
  \cup {ScriptsMap("string", <<"a", ".sh">>, <<>>, start) : start \in StartValues}
  \cup {[ScriptsMap("undefined", <<>>, <<>>, Undefined) EXCEPT !.t = t] : t \in {"null", "string"}}

BaseConfig ==
  [top |-> "map", keys |-> Required,
   appId |-> <<"lab">>, appRepository |-> <<"https://git.example/lab">>,
   appVersion |-> <<"v1">>, appDirectory |-> <<"app">>,
   scripts |-> ScriptsMap("array", <<>>, <<Str(<<"a", ".sh">>), Str(<<"make">>)>>,
                          Str(<<"start", ".sh">>)),
   autoInitialize |-> TRUE, autoActivateEnvBeforeEachStep |-> TRUE,
   python |-> "venv", ports |-> <<>>, additionalOptions |-> <<>>]

BaseEnv == [n \in {"HOME"} |-> <<"/root">>]

PythonKinds == {"absent", "none", "venv", "conda", "poetry"}

AppDirectories == {<<"app">>, <<"/", "opt", "app">>}

\* a configuration with one shape of the scripts field
ShapeConfig(sc, ai, aa, py) ==
  [BaseConfig EXCEPT !.scripts = sc, !.autoInitialize = ai,
                     !.autoActivateEnvBeforeEachStep = aa, !.python = py]

\* a configuration with well-formed scripts
RunConfig(items, start, ai, aa, py, dir) ==
  [BaseConfig EXCEPT !.scripts = ScriptsMap("array", <<>>, items, Str(start)),
                     !.autoInitialize = ai,
                     !.autoActivateEnvBeforeEachStep = aa, !.python = py,
                     !.appDirectory = dir]

StartScripts == {<<"start", ".sh">>, <<"serve", ".sh", " --dev">>}

LoadConfigs ==
  {[BaseConfig EXCEPT !.keys = ks] : ks \in SUBSET Required}
  \cup {[BaseConfig EXCEPT !.top = "null", !.keys = {}]}

PortDecls ==
  {[envVar |-> "PORT", port |-> 8080], [envVar |-> "PORT", port |-> 80],
   [envVar |-> "APP_REPO", port |-> 80], [envVar |-> "constructor", port |-> 8080]}

OptionDecls ==
  {[envVar |-> "PORT", default |-> <<"on">>], [envVar |-> "DEBUG", default |-> <<"on">>],
   [envVar |-> "DEBUG", default |-> <<"8", "0">>]}

\* a configuration that declares ports and options
EnvConfig(ps, os) ==
  [BaseConfig EXCEPT !.ports = ps, !.additionalOptions = os, !.autoInitialize = FALSE]

ProcessEnvs ==
  {[n \in {"HOME"} \cup inherited |->
      CASE n = "HOME" -> <<"/root">>
        [] n = "PORT" -> <<"9">>
        [] n = "APP_REPO" -> <<"fork">>
        [] n = "APP_DIRECTORY" -> <<"/", "data">>
        [] OTHER -> <<"off">>] :
     inherited \in SUBSET {"PORT", "APP_REPO", "APP_DIRECTORY", "DEBUG"}}

Commands == {"", "build", "install", "start"}
BaseDirs == {<<>>, <<".">>, <<"/", "srv", "lab">>}
WorkDirs == {<<"/", "home">>, <<"/", "srv", "lab">>}

Input(command, baseDir, dirExists, wd, fileState, content, penv) ==
  [command |-> command, baseDir |-> baseDir, dirExists |-> dirExists, cwd |-> wd,
   fileState |-> fileState, content |-> content, processEnv |-> penv]

\* ------------------------------------------------------------------- state
VARIABLES
  argv,        \* [command, baseDir]: process.argv[2], process.argv[3] ("" / <<>> when absent)
  cwd,         \* the working directory of the process
  disk,        \* [dirExists, fileState, content]: what the file system holds
  processEnv,  \* the inherited environment
  pc,          \* position in main
  config,      \* the value readConfig returned
  env,         \* the value setEnvVars returned
  i,           \* index of the next setup script of the for loop
  children,    \* every child process spawned so far, in order
  chmods,      \* every chmodSync call made so far, in order
  stdout,      \* the console.log lines main itself printed
  error,       \* the error the catch block received
  exitCode     \* the exit status (-1 while the process runs)

vars == <<argv, cwd, disk, processEnv, pc, config, env, i, children, chmods, stdout, error, exitCode>>

inputVars == <<argv, cwd, disk, processEnv>>

InitFrom(inp) ==
  /\ argv = [command |-> inp.command, baseDir |-> inp.baseDir]
  /\ cwd = inp.cwd
  /\ disk = [dirExists |-> inp.dirExists, fileState |-> inp.fileState, content |-> inp.content]
  /\ processEnv = inp.processEnv
  /\ pc = "main"
  /\ config = BaseConfig
  /\ env = << >>
  /\ i = 1
  /\ children = <<>>
  /\ chmods = <<>>
  /\ stdout = <<>>
  /\ error = NoError
  /\ exitCode = -1

\* every command line, over one configuration
InitArgs ==
  \E c \in Commands, b \in BaseDirs, e \in BOOLEAN, w \in WorkDirs :
    InitFrom(Input(c, b, e, w, "ok", BaseConfig, BaseEnv))

\* every way the configuration file can be missing, malformed or incomplete
InitLoad ==
  \E c \in {"install", "start"} :
    \/ \E f \in {"absent", "malformed"} :
         InitFrom(Input(c, <<".">>, TRUE, <<"/", "home">>, f, BaseConfig, BaseEnv))
    \/ \E cfg \in LoadConfigs :
         InitFrom(Input(c, <<".">>, TRUE, <<"/", "home">>, "ok", cfg, BaseEnv))

\* every shape of the scripts field
InitShape ==
  \E c \in {"install", "start"}, sc \in ScriptsValues,
     ai \in BOOLEAN, aa \in BOOLEAN, py \in PythonKinds :
    InitFrom(Input(c, <<".">>, TRUE, <<"/", "home">>, "ok", ShapeConfig(sc, ai, aa, py), BaseEnv))

\* every run of well-formed scripts, under every flag and from every directory
InitRun ==
  \E c \in {"install", "start"}, b \in BaseDirs \ {<<>>}, w \in WorkDirs,
     items \in SeqsUpTo(SetupItems, MaxSetup), start \in StartScripts,
     ai \in BOOLEAN, aa \in BOOLEAN, py \in PythonKinds, dir \in AppDirectories :
    InitFrom(Input(c, b, TRUE, w, "ok", RunConfig(items, start, ai, aa, py, dir), BaseEnv))

\* every declaration of ports and options, over every inherited environment
InitEnv ==
  \E ps \in SeqsUpTo(PortDecls, MaxPorts), os \in SeqsUpTo(OptionDecls, MaxOptions),
     penv \in ProcessEnvs :
    InitFrom(Input("start", <<".">>, TRUE, <<"/", "home">>, "ok", EnvConfig(ps, os), penv))

Init == InitArgs \/ InitLoad \/ InitShape \/ InitRun \/ InitEnv

\* ----------------------------------------------------------------- actions
ExitOnError == 1

\* mutant: the catch block prints and lets the process end normally
Catch_ExitZero(e) ==
  /\ error' = e
  /\ exitCode' = 0
  /\ pc' = "exited"

\* catch (error) { console.error(...); process.exit(1) }
Catch(e) ==
  /\ error' = e
  /\ exitCode' = ExitOnError
  /\ pc' = "exited"

\* main returns and the event loop drains
Return ==
  /\ exitCode' = 0
  /\ pc' = "exited"
  /\ UNCHANGED error

\* the checks main makes on process.argv: the error thrown, or NoError
validateArgs(args, dsk) ==
  IF args.command \notin {"install", "start"}
    THEN Err("Error", <<"Please provide a valid command">>)
  ELSE IF args.baseDir = <<>>
    THEN Err("Error", <<"Please provide a directory">>)
  ELSE IF ~dsk.dirExists
    THEN Err("Error", <<"Specified directory does not exist">>)
  ELSE NoError

ValidateArgs ==
  /\ pc = "main"
  /\ IF validateArgs(argv, disk) # NoError
       THEN Catch(validateArgs(argv, disk))
       ELSE pc' = "readConfig" /\ UNCHANGED <<error, exitCode>>
  /\ UNCHANGED <<inputVars, config, env, i, children, chmods, stdout>>

ReadConfig ==
  /\ pc = "readConfig"
  /\ IF readConfig(disk.fileState, disk.content) # NoError
       THEN Catch(readConfig(disk.fileState, disk.content)) /\ UNCHANGED config
       ELSE /\ config' = disk.content
            /\ pc' = "setEnvVars"
            /\ UNCHANGED <<error, exitCode>>
  /\ UNCHANGED <<inputVars, env, i, children, chmods, stdout>>

\* mutant: install initializes whatever autoInitialize says
Dispatch_AlwaysInit(command, cfg) ==
  IF command = "install" THEN "clone" ELSE "start"

\* where main goes once the environment is built
Dispatch(command, cfg) ==
  IF command = "install"
    THEN IF cfg.autoInitialize THEN "clone" ELSE "setup"
    ELSE "start"

SetEnvVars ==
  /\ pc = "setEnvVars"
  /\ env' = setEnvVars(config, processEnv)
  /\ pc' = Dispatch(argv.command, config)
  /\ stdout' = IF argv.command = "start" THEN Append(stdout, "Starting run script...") ELSE stdout
  /\ UNCHANGED <<inputVars, config, i, children, chmods, error, exitCode>>

\* mutant: a non-zero status does not throw
ExecSync_NoThrow(child, next) ==
  /\ children' = Append(children, child)
  /\ pc' = next
  /\ UNCHANGED <<error, exitCode>>

\* execSync: the child is recorded, a non-zero status throws
ExecSync(child, next) ==
  /\ children' = Append(children, child)
  /\ IF child.status # 0
       THEN Catch(Err("Error", <<"Command failed">>))
       ELSE pc' = next /\ UNCHANGED <<error, exitCode>>

Clone ==
  /\ pc = "clone"
  /\ \E status \in {0, 1} :
       ExecSync(Spawn("git clone", config.appRepository, config.appDirectory,
                      NoActivation, <<>>, cwd, status, 0), "checkout")
  /\ UNCHANGED <<inputVars, config, env, i, chmods, stdout>>

Checkout ==
  /\ pc = "checkout"
  /\ \E status \in {0, 1} :
       ExecSync(Spawn("git checkout", config.appVersion, config.appDirectory,
                      NoActivation, <<>>, cwd, status, 0), "python")
  /\ UNCHANGED <<inputVars, config, env, i, chmods, stdout>>

SetupPythonEnvironment ==
  /\ pc = "python"
  /\ IF config.python = "venv"
       THEN \E status \in {0, 1} :
              ExecSync(Spawn("python3 -m venv", <<>>, config.appDirectory \o <<"venv">>,
                             NoActivation, <<>>, cwd, status, 0), "setup")
     ELSE IF config.python = "conda"
       THEN \E status \in {0, 1} :
              ExecSync(Spawn("conda create", config.appId, <<>>,
                             NoActivation, <<>>, cwd, status, 0), "setup")
     ELSE pc' = "setup" /\ UNCHANGED <<children, error, exitCode>>
  /\ UNCHANGED <<inputVars, config, env, i, chmods, stdout>>

\* one call of runScript from main: its chmod and its child are recorded
RunScript(script, idx, chmodOk, status) ==
  LET r == runScript(script, config, argv.baseDir, cwd, idx, chmodOk, status)
  IN /\ chmods' = chmods \o r.chmod
     /\ children' = children \o r.spawn
     /\ r.error # NoError => Catch(r.error)

\* one iteration of the for loop over config.scripts.setup
RunSetupScript ==
  /\ pc = "setup"
  /\ i <= Len(config.scripts.setupItems)
  /\ \E chmodOk \in BOOLEAN, status \in {0, 1} :
       LET r == runScript(config.scripts.setupItems[i], config, argv.baseDir, cwd, i, chmodOk, status)
       IN /\ RunScript(config.scripts.setupItems[i], i, chmodOk, status)
          /\ IF r.error = NoError
               THEN i' = i + 1 /\ UNCHANGED <<pc, error, exitCode>>
               ELSE UNCHANGED i
  /\ UNCHANGED <<inputVars, config, env, stdout>>

\* the loop is over: console.log('Setup completed successfully')
SetupCompleted ==
  /\ pc = "setup"
  /\ i > Len(config.scripts.setupItems)
  /\ stdout' = Append(stdout, "Setup completed successfully")
  /\ Return
  /\ UNCHANGED <<inputVars, config, env, i, children, chmods>>

RunStartScript ==
  /\ pc = "start"
  /\ \E chmodOk \in BOOLEAN, status \in {0, 1} :
       LET r == runScript(config.scripts.start, config, argv.baseDir, cwd, 0, chmodOk, status)
       IN /\ RunScript(config.scripts.start, 0, chmodOk, status)
          /\ r.error = NoError => Return
  /\ UNCHANGED <<inputVars, config, env, i, stdout>>

Next ==
  \/ ValidateArgs
  \/ ReadConfig
  \/ SetEnvVars
  \/ Clone
  \/ Checkout
  \/ SetupPythonEnvironment
  \/ RunSetupScript
  \/ SetupCompleted
  \/ RunStartScript

Spec == Init /\ [][Next]_vars

\* ============================================================== properties
\* the command line passed validation and readConfig returned disk.content
Loaded ==
  /\ validateArgs(argv, disk) = NoError
  /\ readConfig(disk.fileState, disk.content) = NoError

Cfg == disk.content

Range(seq) == {seq[k] : k \in 1..Len(seq)}

\* setup entry k failed: its child exited non-zero or its chmod failed
SetupFailedAt(k) ==
  \/ \E c \in Range(children) : c.op = "bash" /\ c.idx = k /\ c.status # 0
  \/ \E m \in Range(chmods) : m.idx = k /\ ~m.ok

\* C1: during install, once setup entry k has exited non-zero (or could not
\* be made executable) no entry after k is ever made executable or executed,
\* 'Setup completed successfully' is not printed, and the process has exited
\* with a non-zero status.
C1_SetupStopsAtFirstFailure ==
  argv.command = "install" =>
    \A k \in 1..Len(Cfg.scripts.setupItems) :
      SetupFailedAt(k) =>
        /\ \A c \in Range(children) : c.idx <= k
        /\ \A m \in Range(chmods) : m.idx <= k
        /\ "Setup completed successfully" \notin Range(stdout)
        /\ pc = "exited"
        /\ exitCode # 0

C1_Witness ==
  /\ argv.command = "install"
  /\ Len(Cfg.scripts.setupItems) = 2
  /\ \E c \in Range(children) : c.op = "bash" /\ c.idx = 1 /\ c.status # 0
  /\ pc = "exited"

\* C2: install with autoInitialize false spawns no git, python or conda
\* process; the k-th child is the k-th setup entry, and it is started only
\* after every earlier one exited with status zero.
C2_OnlySetupScriptsInOrder ==
  (argv.command = "install" /\ ~Cfg.autoInitialize) =>
    /\ Len(children) <= Len(Cfg.scripts.setupItems)
    /\ \A k \in 1..Len(children) :
         /\ children[k].op = "bash"
         /\ children[k].idx = k
         /\ children[k].script = Cfg.scripts.setupItems[k].v
         /\ k < Len(children) => children[k].status = 0

C2_Witness ==
  /\ argv.command = "install"
  /\ ~Cfg.autoInitialize
  /\ Len(children) = 2
  /\ children[1].script # children[2].script
  /\ pc = "exited"
  /\ exitCode = 0

\* C3: when the parsed configuration lacks a required field, for install and
\* for start alike, the run ends in the loader with an error that names the
\* first missing field in the order appId, source, scripts, appRepository,
\* appVersion, appDirectory; nothing is spawned, nothing is chmod-ed, and the
\* exit status is 1.
C3_MissingFieldNamed ==
  LET order == <<"appId", "source", "scripts", "appRepository", "appVersion", "appDirectory">>
      lacks(k) == order[k] \notin Cfg.keys /\ \A j \in 1..(k - 1) : order[j] \in Cfg.keys
  IN (validateArgs(argv, disk) = NoError /\ disk.fileState = "ok") =>
       \A k \in 1..6 :
         lacks(k) =>
           /\ children = <<>>
           /\ chmods = <<>>
           /\ pc \in {"main", "readConfig", "exited"}
           /\ pc = "exited" => /\ exitCode = 1
                               /\ error.msg # <<>>
                               /\ error.msg[Len(error.msg)] = order[k]

C3_Witness ==
  /\ argv.command = "start"
  /\ disk.fileState = "ok"
  /\ Cfg.top = "map"
  /\ Cfg.keys = {"appId", "source", "appVersion"}
  /\ pc = "exited"
  /\ error.msg = <<"Missing required property in config: ", "scripts">>

\* C4: whenever scripts.setup is not a sequence, or scripts.start is not a
\* non-empty string (absent, empty, a number, a list), the invocation fails
\* in the loader before any side effect: for install and for start alike,
\* nothing is spawned (no clone, no provisioning, no script) and nothing is
\* chmod-ed.
C4_ScriptsShapeFailsFast ==
  (/\ validateArgs(argv, disk) = NoError
   /\ disk.fileState = "ok"
   /\ Cfg.top = "map"
   /\ Cfg.keys = Required
   /\ Cfg.scripts.t = "map"
   /\ \/ Cfg.scripts.setupT # "array"
      \/ Cfg.scripts.start.t # "string"
      \/ Cfg.scripts.start.v = <<>>)
  => /\ children = <<>>
     /\ chmods = <<>>

\* the environment mapping has been built
EnvBuilt == Loaded /\ pc \notin {"main", "readConfig", "setEnvVars"}

\* the declarations of the configuration, ports first, each with the value
\* it would give its variable
Declarations ==
  LET decimal(n) == IF n = 80 THEN <<"8", "0">> ELSE <<"8", "0", "8", "0">>
  IN [k \in 1..Len(Cfg.ports) |->
        [envVar |-> Cfg.ports[k].envVar, value |-> decimal(Cfg.ports[k].port)]]
     \o [k \in 1..Len(Cfg.additionalOptions) |->
           [envVar |-> Cfg.additionalOptions[k].envVar,
            value |-> Cfg.additionalOptions[k].default]]

FirstDeclared(name) ==
  LET k == CHOOSE k \in 1..Len(Declarations) :
             /\ Declarations[k].envVar = name
             /\ \A j \in 1..(k - 1) : Declarations[j].envVar # name
  IN Declarations[k].value

DeclaredNames == {Declarations[k].envVar : k \in 1..Len(Declarations)}

InheritedKept == \A n \in DOMAIN processEnv : n \in DOMAIN env /\ env[n] = processEnv[n]

C6_Original ==
  EnvBuilt =>
    /\ env["APP_REPO"] = Cfg.appRepository
    /\ env["APP_VERSION"] = Cfg.appVersion
    /\ env["APP_DIRECTORY"] = Cfg.appDirectory

\* C6 (amended): APP_REPO, APP_VERSION and APP_DIRECTORY are always present;
\* each holds the inherited value when the inherited environment defines
\* that name, and the configuration's value otherwise.
C6_FixedKeysSeeded ==
  EnvBuilt =>
    /\ {"APP_REPO", "APP_VERSION", "APP_DIRECTORY"} \subseteq DOMAIN env
    /\ env["APP_REPO"] =
         IF "APP_REPO" \in DOMAIN processEnv THEN processEnv["APP_REPO"] ELSE Cfg.appRepository
    /\ env["APP_VERSION"] =
         IF "APP_VERSION" \in DOMAIN processEnv THEN processEnv["APP_VERSION"] ELSE Cfg.appVersion
    /\ env["APP_DIRECTORY"] =
         IF "APP_DIRECTORY" \in DOMAIN processEnv THEN processEnv["APP_DIRECTORY"] ELSE Cfg.appDirectory

C6_Witness ==
  /\ EnvBuilt
  /\ "APP_REPO" \in DOMAIN processEnv
  /\ processEnv["APP_REPO"] # Cfg.appRepository
  /\ "APP_VERSION" \notin DOMAIN processEnv
  /\ env["APP_VERSION"] = Cfg.appVersion

\* start was asked for and the configuration is valid
StartValid == argv.command = "start" /\ Loaded /\ Cfg.scripts.start.t = "string"

\* every child is the start script, verbatim, prefixed exactly when the flag
\* is set and the kind is venv or conda
OnlyStartScript ==
  \A c \in Range(children) :
    /\ c.op = "bash"
    /\ c.script = Cfg.scripts.start.v
    /\ (c.act.kind # "") <=>
         (Cfg.autoActivateEnvBeforeEachStep /\ Cfg.python \in {"venv", "conda"})
    /\ c.act.kind = "" => c.act.target = <<>>

\* C7 as stated: start with a valid configuration performs exactly one
\* script execution, of scripts.start verbatim, with the activation prefix
\* iff the flag is set and the kind is venv or conda; nothing else runs.
C7_Original ==
  StartValid =>
    /\ OnlyStartScript
    /\ Len(children) <= 1
    /\ pc = "exited" => Len(children) = 1

\* C7 (amended): start with a valid configuration performs at most one
\* script execution and nothing else: exactly one, unless scripts.start
\* ends in .sh and could not be made executable, and then none.  The command
\* is scripts.start verbatim, with the activation prefix iff the flag is set
\* and the kind is venv or conda.
C7_StartRunsOnlyStartScript ==
  StartValid =>
    /\ OnlyStartScript
    /\ Len(children) <= 1
    /\ pc = "exited" =>
         IF \E m \in Range(chmods) : ~m.ok THEN children = <<>> ELSE Len(children) = 1
    /\ \A m \in Range(chmods) : endsWith(Cfg.scripts.start.v, ".sh")

C7_Witness ==
  /\ StartValid
  /\ pc = "exited"
  /\ Len(children) = 1
  /\ children[1].act.kind = "source"
  /\ children[1].script = <<"serve", ".sh", " --dev">>
  /\ chmods = <<>>

\* the stages of install when autoInitialize is set, in order
ExpectedStages ==
  <<"git clone", "git checkout">>
  \o (IF Cfg.python = "venv" THEN <<"python3 -m venv">>
      ELSE IF Cfg.python = "conda" THEN <<"conda create">>
      ELSE <<>>)
  \o [k \in 1..Len(Cfg.scripts.setupItems) |-> "bash"]

\* C8: install with autoInitialize set runs clone, checkout, provisioning and
\* the setup scripts in that order; a stage is started only after every
\* earlier stage exited with status zero, and no other command (no rollback)
\* is ever run.
C8_InstallStagesInOrder ==
  (argv.command = "install" /\ Cfg.autoInitialize) =>
    /\ Len(children) <= Len(ExpectedStages)
    /\ \A k \in 1..Len(children) :
         /\ children[k].op = ExpectedStages[k]
         /\ k < Len(children) => children[k].status = 0
         /\ children[k].op = "bash" =>
              LET n == k - (Len(ExpectedStages) - Len(Cfg.scripts.setupItems))
              IN children[k].idx = n /\ children[k].script = Cfg.scripts.setupItems[n].v

C8_Witness ==
  /\ argv.command = "install"
  /\ Cfg.autoInitialize
  /\ Len(children) = 5
  /\ children[3].op = "conda create"
  /\ pc = "exited"
  /\ exitCode = 0

\* every step invoked so far succeeded
StepsSucceeded ==
  /\ \A c \in Range(children) : c.status = 0
  /\ \A m \in Range(chmods) : m.ok
  /\ error.name # "TypeError"

\* C9: the process exits with status 0 or 1; with 0 exactly when argument
\* validation, configuration loading and every invoked step succeeded; and
\* after a usage error the configuration is never read and nothing is
\* spawned or chmod-ed.
C9_ExitStatus ==
  /\ pc = "exited" =>
       /\ exitCode \in {0, 1}
       /\ exitCode = 0 <=> (Loaded /\ StepsSucceeded)
  /\ pc # "exited" => exitCode = -1
  /\ validateArgs(argv, disk) # NoError =>
       /\ pc \in {"main", "exited"}
       /\ children = <<>>
       /\ chmods = <<>>
       /\ env = << >>

C9_Witness ==
  /\ pc = "exited"
  /\ exitCode = 0
  /\ Len(children) = 3
  /\ Len(chmods) = 1

\* C10: with autoInitialize and autoActivateEnvBeforeEachStep set, the path
\* a setup script sources lies inside the venv directory the Provisioner
\* created, each resolved in the working directory of its own process; and
\* the conda environment activated is the one created.
C10_ActivatesWhatWasProvisioned ==
  (argv.command = "install" /\ Cfg.autoInitialize /\ Cfg.autoActivateEnvBeforeEachStep) =>
    \A made \in Range(children), run \in Range(children) :
      /\ (made.op = "python3 -m venv" /\ run.op = "bash") =>
           /\ run.act.kind = "source"
           /\ IsPrefix(Resolve(made.cwd, made.dir), Resolve(run.cwd, run.act.target))
      /\ (made.op = "conda create" /\ run.op = "bash") =>
           /\ run.act.kind = "conda activate"
           /\ run.act.target = made.a

====
